---- MODULE Spec2Model ----
(***************************************************************************)
(* A model of keras/initializers.py: the fan calculator, the initializer   *)
(* classes (constructor, __call__, get_config, from_config) and the global *)
(* numpy random generator that Orthogonal and ConvolutionAware draw from.  *)
(*                                                                         *)
(* Python values are modelled as follows.                                  *)
(*   - None is the empty tuple <<>>, an integer seed s is <<s>>.            *)
(*   - a str is the tuple of its characters.                               *)
(*   - a number is a record [n, d, r] standing for sgn(n)*(|n|/d)^(1/r),   *)
(*     r in {1, 2, 4}, so that np.sqrt of a rational is exact.             *)
(*   - an outcome is [ok |-> TRUE, val |-> v] or [ok |-> FALSE, exc |-> e].*)
(*   - a sampled array is a term naming the generator state it was drawn   *)
(*     from: two arrays are equal iff they are the same deterministic      *)
(*     function of the same draws.                                         *)
(***************************************************************************)
EXTENDS Integers, Sequences, FiniteSets, TLC

VARIABLES
    objs,        \* the initializer instances constructed so far
    np_random,   \* state of the process-wide numpy generator (np.random)
    k_random,    \* position of the backend's own unseeded stream
    calls,       \* completed __call__ invocations, oldest first
    ret          \* outcome of the most recent operation

vars == <<objs, np_random, k_random, calls, ret>>

-----------------------------------------------------------------------------
(* Bounds of the model *)

MaxDim == 3          \* fan calculator: shape entries range over 1..MaxDim
MaxRank == 5         \* fan calculator: shapes have length 1..MaxRank
CallMaxDim == 2      \* single calls: shape entries range over 0..CallMaxDim
CallMaxRank == 5     \* single calls: shapes have length 0..CallMaxRank
MaxObjs == 2         \* instances alive at a time
MaxCalls == 2        \* calls recorded in a run
MaxFilters == 6      \* _create_basis: filters ranges over 1..MaxFilters
MaxSize == 4         \* _create_basis: size ranges over 1..MaxSize

-----------------------------------------------------------------------------
(* Python values *)

None == <<>>
Some(x) == <<x>>

Ok(v) == [ok |-> TRUE, val |-> v]
Raise(e) == [ok |-> FALSE, exc |-> e]

Abs(i) == IF i < 0 THEN -i ELSE i
Sgn(i) == IF i < 0 THEN -1 ELSE IF i = 0 THEN 0 ELSE 1
Min(a, b) == IF a <= b THEN a ELSE b
Max(a, b) == IF a >= b THEN a ELSE b

RECURSIVE GCD(_, _)
GCD(a, b) == IF b = 0 THEN a ELSE GCD(b, a % b)

RECURSIVE IPow(_, _)
IPow(b, e) == IF e = 0 THEN 1 ELSE b * IPow(b, e - 1)

\* the number sgn(n) * (|n|/d)^(1/r) in lowest terms
Real(n, d, r) ==
    LET g == GCD(Abs(n), d)
    IN  IF n = 0 THEN [n |-> 0, d |-> 1, r |-> 1]
        ELSE [n |-> n \div g, d |-> d \div g, r |-> r]

Num(i) == Real(i, 1, 1)

\* the same number written under the root of degree L (a multiple of x.r)
Lift(x, L) ==
    LET k == L \div x.r
    IN  [n |-> Sgn(x.n) * IPow(Abs(x.n), k), d |-> IPow(x.d, k), r |-> L]

RMul(x, y) ==
    LET L == Max(x.r, y.r)
        a == Lift(x, L)
        b == Lift(y, L)
    IN  Real(a.n * b.n, a.d * b.d, L)

\* float('inf')
Inf == [n |-> 1, d |-> 0, r |-> 1]

\* x / y for y # 0
RDiv(x, y) ==
    LET L == Max(x.r, y.r)
        a == Lift(x, L)
        b == Lift(y, L)
    IN  Real(a.n * b.d * Sgn(b.n), a.d * Abs(b.n), L)

\* x / y for x > 0 and a numpy scalar y >= 0: inf when y is 0
py_div(x, y) == IF y.n = 0 THEN Inf ELSE RDiv(x, y)

RNeg(x) == [x EXCEPT !.n = -x.n]

\* x + y, for two rationals or for two equal numbers
RAdd(x, y) ==
    IF x.r = 1 /\ y.r = 1
    THEN Real(x.n * y.d + y.n * x.d, x.d * y.d, 1)
    ELSE RMul(Num(2), x)

\* np.sqrt(x) for x >= 0
RSqrt(x) == IF x.n = 0 THEN x ELSE [x EXCEPT !.r = 2 * x.r]

\* |x|^4 as a rational in lowest terms
Pow4(x) == LET a == Lift(x, 4) IN Real(Abs(a.n), a.d, 1)

REq(x, y) == Sgn(x.n) = Sgn(y.n) /\ Pow4(x) = Pow4(y)

\* x < y for x, y >= 0
RLt(x, y) == Pow4(x).n * Pow4(y).d < Pow4(y).n * Pow4(x).d

\* Python's max(x, y): the first of the largest
PyMax(x, y) == IF RLt(x, y) THEN y ELSE x

-----------------------------------------------------------------------------
(* Shapes *)

RECURSIVE Prod(_)
Prod(s) == IF Len(s) = 0 THEN 1 ELSE Head(s) * Prod(Tail(s))

\* the Python slice s[a:b] with 0 <= a, 0 <= b
Slice(s, a, b) == SubSeq(s, Min(a, Len(s)) + 1, Min(b, Len(s)))

\* all shapes of length lo..hi with entries in Dims
ShapesOf(lo, hi, Dims) == UNION {[1..k -> Dims] : k \in lo..hi}

DataFormats == {"channels_first", "channels_last", "channels_mid"}

-----------------------------------------------------------------------------
(* _compute_fans *)

compute_fans(shape, data_format) ==
    IF Len(shape) = 2
    THEN Ok(<<Num(shape[1]), Num(shape[2])>>)
    ELSE IF Len(shape) \in {3, 4, 5}
    THEN IF data_format = "channels_first"
         THEN LET receptive_field_size == Prod(Slice(shape, 2, Len(shape)))
              IN  Ok(<<Num(shape[2] * receptive_field_size),
                       Num(shape[1] * receptive_field_size)>>)
         ELSE IF data_format = "channels_last"
         THEN LET receptive_field_size == Prod(Slice(shape, 0, 2))
              IN  Ok(<<Num(shape[Len(shape) - 1] * receptive_field_size),
                       Num(shape[Len(shape)] * receptive_field_size)>>)
         ELSE Raise("ValueError")
    ELSE Ok(<<RSqrt(Num(Prod(shape))), RSqrt(Num(Prod(shape)))>>)

-----------------------------------------------------------------------------
(* Strings: a str is the tuple of its characters *)

UpperCase == <<"A", "B", "C", "D", "E", "F", "G", "H", "I", "J", "K", "L", "M",
               "N", "O", "P", "Q", "R", "S", "T", "U", "V", "W", "X", "Y", "Z">>
LowerCase == <<"a", "b", "c", "d", "e", "f", "g", "h", "i", "j", "k", "l", "m",
               "n", "o", "p", "q", "r", "s", "t", "u", "v", "w", "x", "y", "z">>

lower_char(c) ==
    IF \E i \in 1..26 : UpperCase[i] = c
    THEN LowerCase[CHOOSE i \in 1..26 : UpperCase[i] = c]
    ELSE c

\* str.lower()
lower(s) == [i \in 1..Len(s) |-> lower_char(s[i])]

s_fan_in == <<"f", "a", "n", "_", "i", "n">>
s_fan_out == <<"f", "a", "n", "_", "o", "u", "t">>
s_fan_avg == <<"f", "a", "n", "_", "a", "v", "g">>
s_normal == <<"n", "o", "r", "m", "a", "l">>
s_uniform == <<"u", "n", "i", "f", "o", "r", "m">>

\* strings a caller may pass as mode or distribution
s_FAN_IN == <<"F", "A", "N", "_", "I", "N">>
s_Fan_Out == <<"F", "a", "n", "_", "O", "u", "t">>
s_fan_Avg == <<"f", "a", "n", "_", "A", "v", "g">>
s_fan == <<"f", "a", "n">>
s_NORMAL == <<"N", "O", "R", "M", "A", "L">>
s_Uniform == <<"U", "n", "i", "f", "o", "r", "m">>
s_gaussian == <<"g", "a", "u", "s", "s", "i", "a", "n">>
s_empty == <<>>

ModeArgs == {s_fan_in, s_fan_out, s_fan_avg, s_FAN_IN, s_Fan_Out, s_fan_Avg,
             s_fan, s_normal, s_empty}
DistributionArgs == {s_normal, s_uniform, s_NORMAL, s_Uniform, s_gaussian,
                     s_fan_in, s_empty}
ScaleArgs == {Num(-1), Num(0), Num(1), Num(2), Real(1, 2, 1)}
SeedArgs == {None, Some(1), Some(2)}

-----------------------------------------------------------------------------
(* Constructors.  An instance is a record of its attributes plus cls. *)

Orthogonal_init(gain, seed) ==
    Ok([cls |-> "Orthogonal", gain |-> gain, seed |-> seed])

\* a constructor that rejects only negative scales
VarianceScaling_init_zero_scale(scale, mode, distribution, seed) ==
    IF scale.n < 0
    THEN Raise("ValueError")
    ELSE LET mode1 == lower(mode) IN
         IF mode1 \notin {s_fan_in, s_fan_out, s_fan_avg}
         THEN Raise("ValueError")
         ELSE LET distribution1 == lower(distribution) IN
              IF distribution1 \notin {s_normal, s_uniform}
              THEN Raise("ValueError")
              ELSE Ok([cls |-> "VarianceScaling", scale |-> scale,
                       mode |-> mode1, distribution |-> distribution1,
                       seed |-> seed])

VarianceScaling_init(scale, mode, distribution, seed) ==
    IF scale.n <= 0
    THEN Raise("ValueError")
    ELSE LET mode1 == lower(mode) IN
         IF mode1 \notin {s_fan_in, s_fan_out, s_fan_avg}
         THEN Raise("ValueError")
         ELSE LET distribution1 == lower(distribution) IN
              IF distribution1 \notin {s_normal, s_uniform}
              THEN Raise("ValueError")
              ELSE Ok([cls |-> "VarianceScaling", scale |-> scale,
                       mode |-> mode1, distribution |-> distribution1,
                       seed |-> seed])

Constant_init(value) == Ok([cls |-> "Constant", value |-> value])

RandomNormal_init(mean, stddev, seed) ==
    Ok([cls |-> "RandomNormal", mean |-> mean, stddev |-> stddev, seed |-> seed])

RandomUniform_init(minval, maxval, seed) ==
    Ok([cls |-> "RandomUniform", minval |-> minval, maxval |-> maxval,
        seed |-> seed])

TruncatedNormal_init(mean, stddev, seed) ==
    Ok([cls |-> "TruncatedNormal", mean |-> mean, stddev |-> stddev,
        seed |-> seed])

ConvolutionAware_init(eps_std, seed) ==
    Ok([cls |-> "ConvolutionAware", eps_std |-> eps_std, seed |-> seed,
        orthogonal |-> Orthogonal_init(Num(1), None).val])

Identity_init(gain) == Ok([cls |-> "Identity", gain |-> gain])

Classes == {"Zeros", "Ones", "Constant", "RandomNormal", "RandomUniform",
            "TruncatedNormal", "VarianceScaling", "Orthogonal",
            "ConvolutionAware", "Identity"}

\* keyword parameters of each constructor, with their default values
Defaults(cls) ==
    CASE cls = "Constant" -> [value |-> Num(0)]
      [] cls = "RandomNormal" ->
            [mean |-> Num(0), stddev |-> Real(1, 20, 1), seed |-> None]
      [] cls = "RandomUniform" ->
            [minval |-> Real(-1, 20, 1), maxval |-> Real(1, 20, 1), seed |-> None]
      [] cls = "TruncatedNormal" ->
            [mean |-> Num(0), stddev |-> Real(1, 20, 1), seed |-> None]
      [] cls = "VarianceScaling" ->
            [scale |-> Num(1), mode |-> s_fan_in, distribution |-> s_normal,
             seed |-> None]
      [] cls = "Orthogonal" -> [gain |-> Num(1), seed |-> None]
      [] cls = "ConvolutionAware" -> [eps_std |-> Real(1, 20, 1), seed |-> None]
      [] cls = "Identity" -> [gain |-> Num(1)]
      [] OTHER -> <<>>

\* cls(**kwargs)
New(cls, kwargs) ==
    IF ~(DOMAIN kwargs \subseteq DOMAIN Defaults(cls))
    THEN Raise("TypeError")
    ELSE LET a == [k \in DOMAIN Defaults(cls) |->
                      IF k \in DOMAIN kwargs THEN kwargs[k] ELSE Defaults(cls)[k]]
         IN  CASE cls = "Constant" -> Constant_init(a.value)
               [] cls = "RandomNormal" -> RandomNormal_init(a.mean, a.stddev, a.seed)
               [] cls = "RandomUniform" ->
                     RandomUniform_init(a.minval, a.maxval, a.seed)
               [] cls = "TruncatedNormal" ->
                     TruncatedNormal_init(a.mean, a.stddev, a.seed)
               [] cls = "VarianceScaling" ->
                     VarianceScaling_init(a.scale, a.mode, a.distribution, a.seed)
               [] cls = "Orthogonal" -> Orthogonal_init(a.gain, a.seed)
               [] cls = "ConvolutionAware" ->
                     ConvolutionAware_init(a.eps_std, a.seed)
               [] cls = "Identity" -> Identity_init(a.gain)
               [] OTHER -> Ok([cls |-> cls])

\* a from_config that drops the configuration
from_config_defaults(cls, config) == New(cls, <<>>)

\* Initializer.from_config
from_config(cls, config) == New(cls, config)

-----------------------------------------------------------------------------
(* get_config *)

Initializer_get_config(self) == <<>>

Constant_get_config(self) == [value |-> self.value]

RandomNormal_get_config(self) ==
    [mean |-> self.mean, stddev |-> self.stddev, seed |-> self.seed]

RandomUniform_get_config(self) ==
    [minval |-> self.minval, maxval |-> self.maxval, seed |-> self.seed]

TruncatedNormal_get_config(self) ==
    [mean |-> self.mean, stddev |-> self.stddev, seed |-> self.seed]

VarianceScaling_get_config(self) ==
    [scale |-> self.scale, mode |-> self.mode,
     distribution |-> self.distribution, seed |-> self.seed]

Orthogonal_get_config(self) == [gain |-> self.gain, seed |-> self.seed]

ConvolutionAware_get_config(self) ==
    [eps_std |-> self.eps_std, seed |-> self.seed]

Identity_get_config(self) == [gain |-> self.gain]

get_config(self) ==
    CASE self.cls = "Constant" -> Constant_get_config(self)
      [] self.cls = "RandomNormal" -> RandomNormal_get_config(self)
      [] self.cls = "RandomUniform" -> RandomUniform_get_config(self)
      [] self.cls = "TruncatedNormal" -> TruncatedNormal_get_config(self)
      [] self.cls = "VarianceScaling" -> VarianceScaling_get_config(self)
      [] self.cls = "Orthogonal" -> Orthogonal_get_config(self)
      [] self.cls = "ConvolutionAware" -> ConvolutionAware_get_config(self)
      [] self.cls = "Identity" -> Identity_get_config(self)
      [] OTHER -> Initializer_get_config(self)

-----------------------------------------------------------------------------
(* The process-wide numpy generator.  Its state is the seed it was last    *)
(* seeded with (None: never seeded) and the number of values drawn since.  *)

\* np.random.seed(seed)
np_random_seed(seed) == [seed |-> Some(seed), pos |-> 0]

\* np.random.normal(loc, scale, size): the array drawn and the state after
np_random_normal(rng, loc, scale, size) ==
    [out |-> [kind |-> "normal", loc |-> loc, scale |-> scale, size |-> size,
              from |-> rng],
     np |-> [rng EXCEPT !.pos = @ + Prod(size)]]

-----------------------------------------------------------------------------
(* The numeric backend K *)

image_data_format == "channels_last"

K_constant(value, shape) ==
    Ok([kind |-> "constant", value |-> value, shape |-> shape])

\* K.random_normal, K.random_uniform, K.truncated_normal: with a seed the
\* array is a function of the arguments; without, of the backend's stream
K_random(prim, shape, a, b, seed, k) ==
    [out |-> Ok([kind |-> prim, shape |-> shape, a |-> a, b |-> b,
                 seed |-> seed,
                 draw |-> IF seed = None THEN k + 1 ELSE 0]),
     k |-> IF seed = None THEN k + 1 ELSE k]

-----------------------------------------------------------------------------
(* __call__.  Each operator gives the outcome, the generator states after  *)
(* the call and the code path taken.                                       *)

Result(out, rng, k, via) == [out |-> out, np |-> rng, k |-> k, via |-> via]

Zeros_call(self, shape, rng, k) ==
    Result(K_constant(Num(0), shape), rng, k, "backend")

Ones_call(self, shape, rng, k) ==
    Result(K_constant(Num(1), shape), rng, k, "backend")

Constant_call(self, shape, rng, k) ==
    Result(K_constant(self.value, shape), rng, k, "backend")

RandomNormal_call(self, shape, rng, k) ==
    LET r == K_random("random_normal", shape, self.mean, self.stddev,
                      self.seed, k)
    IN  Result(r.out, rng, r.k, "backend")

RandomUniform_call(self, shape, rng, k) ==
    LET r == K_random("random_uniform", shape, self.minval, self.maxval,
                      self.seed, k)
    IN  Result(r.out, rng, r.k, "backend")

TruncatedNormal_call(self, shape, rng, k) ==
    LET r == K_random("truncated_normal", shape, self.mean, self.stddev,
                      self.seed, k)
    IN  Result(r.out, rng, r.k, "backend")

\* a call that takes fan_in in fan_out mode too
VarianceScaling_call_fan_in_only(self, shape, rng, k) ==
    LET fans == compute_fans(shape, "channels_last").val
        fan_in == fans[1]
        fan_out == fans[2]
        n == IF self.mode = s_fan_in THEN fan_in
             ELSE IF self.mode = s_fan_out THEN fan_in
             ELSE RDiv(RAdd(fan_in, fan_out), Num(2))
        scale == RDiv(self.scale, PyMax(Num(1), n))
    IN  IF self.distribution = s_normal
        THEN LET stddev == RSqrt(scale)
                 r == K_random("truncated_normal", shape, Num(0), stddev,
                               self.seed, k)
             IN  Result(r.out, rng, r.k, "backend")
        ELSE LET limit == RSqrt(RMul(Num(3), scale))
                 r == K_random("random_uniform", shape, RNeg(limit), limit,
                               self.seed, k)
             IN  Result(r.out, rng, r.k, "backend")

VarianceScaling_call(self, shape, rng, k) ==
    LET fans == compute_fans(shape, "channels_last").val
        fan_in == fans[1]
        fan_out == fans[2]
        scale ==
            IF self.mode = s_fan_in
            THEN RDiv(self.scale, PyMax(Num(1), fan_in))
            ELSE IF self.mode = s_fan_out
            THEN RDiv(self.scale, PyMax(Num(1), fan_out))
            ELSE RDiv(self.scale,
                      PyMax(Num(1), RDiv(RAdd(fan_in, fan_out), Num(2))))
    IN  IF self.distribution = s_normal
        THEN LET stddev == RSqrt(scale)
                 r == K_random("truncated_normal", shape, Num(0), stddev,
                               self.seed, k)
             IN  Result(r.out, rng, r.k, "backend")
        ELSE LET limit == RSqrt(RMul(Num(3), scale))
                 r == K_random("random_uniform", shape, RNeg(limit), limit,
                               self.seed, k)
             IN  Result(r.out, rng, r.k, "backend")

\* shapes of the factors u, v of np.linalg.svd(a, full_matrices=False)
svd_shapes(a_shape) ==
    LET kk == Min(a_shape[1], a_shape[2])
    IN  [u |-> <<a_shape[1], kk>>, v |-> <<kk, a_shape[2]>>]

Orthogonal_call(self, shape, rng, k) ==
    IF Len(shape) = 0
    THEN Result(Raise("IndexError"), rng, k, "self")
    ELSE
    LET num_rows == Prod(Slice(shape, 0, Len(shape) - 1))
        num_cols == shape[Len(shape)]
        flat_shape == <<num_rows, num_cols>>
        rng1 == IF self.seed # None THEN np_random_seed(self.seed[1]) ELSE rng
        a == np_random_normal(rng1, Num(0), Num(1), flat_shape)
        uv == svd_shapes(flat_shape)
        q == IF uv.u = flat_shape
             THEN [factor |-> "u", of |-> a.out, shape |-> uv.u]
             ELSE [factor |-> "v", of |-> a.out, shape |-> uv.v]
    IN  IF Prod(q.shape) # Prod(shape)
        THEN Result(Raise("ValueError"), a.np, k, "self")
        ELSE IF Len(shape) < 2
        THEN Result(Raise("IndexError"), a.np, k, "self")
        ELSE Result(Ok([kind |-> "orthogonal", gain |-> self.gain,
                        factor |-> q.factor, of |-> q.of, shape |-> shape]),
                    a.np, k, "self")

\* one pass of the loop of _create_basis: a batch of `size` rows
RECURSIVE create_basis_loop(_, _, _, _, _)
create_basis_loop(i, nbb, size, rng, li) ==
    IF i >= nbb
    THEN [li |-> li, np |-> rng, batches |-> i]
    ELSE LET a == np_random_normal(rng, Num(0), Num(1), <<size, size>>)
             rows == [r \in 1..size |->
                         [svd_u_of |-> a.out, row |-> r, len |-> size]]
         IN  create_basis_loop(i + 1, nbb, size, a.np, li \o rows)

\* a loop bound that stops as soon as filters // size batches are drawn
create_basis_nbb_exact(filters, size) == filters \div size

\* nbb = filters // size + 1
create_basis_nbb(filters, size) == filters \div size + 1

\* ConvolutionAware._create_basis: the rows returned, the generator state
\* after, the number of batches drawn and of rows collected
create_basis(self, filters, size, rng) ==
    IF size = 1
    THEN LET a == np_random_normal(rng, Num(0), self.eps_std, <<filters, size>>)
         IN  [out |-> [r \in 1..filters |->
                          [noise_of |-> a.out, row |-> r, len |-> size]],
              np |-> a.np, batches |-> 0, collected |-> 0]
    ELSE LET nbb == create_basis_nbb(filters, size)
             l == create_basis_loop(0, nbb, size, rng, <<>>)
         IN  [out |-> Slice(l.li, 0, filters), np |-> l.np,
              batches |-> l.batches, collected |-> Len(l.li)]

\* the shape of np.fft.irfft / irfft2 of a zero array of shape kernel_shape:
\* the last axis is transformed to length 2 * (len - 1), the first axis of a
\* 2-D kernel keeps its length; <<>> when a transform length is below 1 and
\* numpy raises ValueError
kernel_fourier_shape(kernel_shape) ==
    LET n == 2 * (kernel_shape[Len(kernel_shape)] - 1)
    IN  IF n < 1 THEN <<>>
        ELSE IF Len(kernel_shape) = 1 THEN <<n>>
        ELSE IF kernel_shape[1] < 1 THEN <<>>
        ELSE <<kernel_shape[1], n>>

\* the number of axes of np.array(init): init is a list of filters_size
\* lists of stack_size arrays of the kernel's shape, and an empty list ends
\* the nesting
init_ndim(filters_size, stack_size, kernel_shape) ==
    IF filters_size = 0 THEN 1
    ELSE IF stack_size = 0 THEN 2
    ELSE 2 + Len(kernel_shape)

\* filters = [correct_fft(x, kernel_shape) + noise for x in basis]: per basis
\* row, a draw of noise of the kernel's shape
RECURSIVE filters_of_basis(_, _, _, _, _, _)
filters_of_basis(self, basis, j, kernel_shape, rng, acc) ==
    IF j > Len(basis)
    THEN [filters |-> acc, np |-> rng]
    ELSE LET noise == np_random_normal(rng, Num(0), self.eps_std, kernel_shape)
         IN  filters_of_basis(self, basis, j + 1, kernel_shape, noise.np,
                 Append(acc, [irfft_of |-> basis[j], s |-> kernel_shape,
                              plus |-> noise.out]))

\* the loop over the output filters
RECURSIVE filters_loop(_, _, _, _, _, _, _)
filters_loop(self, i, filters_size, stack_size, kernel_shape, kfs, acc) ==
    IF i >= filters_size
    THEN acc
    ELSE LET basis == create_basis(self, stack_size, Prod(kfs), acc.np)
             f == filters_of_basis(self, basis.out, 1, kernel_shape, basis.np,
                                   <<>>)
         IN  filters_loop(self, i + 1, filters_size, stack_size, kernel_shape,
                          kfs,
                          [init |-> Append(acc.init, f.filters), np |-> f.np])

\* variance = 2 / fan_in.  For a shape of length 2 fan_in is the Python int
\* shape[0] and 2 / 0 raises ZeroDivisionError, before anything is drawn and
\* before the rank is looked at; for every other length fan_in is a numpy
\* scalar and 2 / 0 is inf.  On the Fourier path the final transpose names
\* `rank` axes and raises ValueError when np.array(init) has fewer, after the
\* draws of the loop.
\* (the print of the kernel dimensions on the rank-4 path writes to stdout
\* only and is left out)
ConvolutionAware_call(self, shape, rng, k) ==
    LET rank == Len(shape)
        fans == compute_fans(shape, image_data_format)
    IN  IF ~fans.ok
        THEN Result(fans, rng, k, "self")
        ELSE IF rank = 2 /\ fans.val[1].n = 0
        THEN Result(Raise("ZeroDivisionError"), rng, k, "self")
        ELSE
        LET variance == py_div(Num(2), fans.val[1])
        IN  IF rank \notin {3, 4}
            THEN LET r == Orthogonal_call(self.orthogonal, shape, rng, k)
                 IN  Result(r.out, r.np, r.k, "orthogonal")
            ELSE
            LET stack_size == shape[rank - 1]
                filters_size == shape[rank]
                kernel_shape == Slice(shape, 0, rank - 2)
                kfs == kernel_fourier_shape(kernel_shape)
            IN  IF kfs = <<>>
                THEN Result(Raise("ValueError"), rng, k, "fourier")
                ELSE
                LET l == filters_loop(self, 0, filters_size, stack_size,
                                      kernel_shape, kfs,
                                      [init |-> <<>>, np |-> rng])
                IN  IF init_ndim(filters_size, stack_size, kernel_shape) # rank
                    THEN Result(Raise("ValueError"), l.np, k, "fourier")
                    ELSE
                    Result(Ok([kind |-> "convolution_aware",
                               init |-> l.init, variance |-> variance,
                               shape |-> shape]),
                           l.np, k, "fourier")

\* a call that checks the rank but not that the matrix is square
Identity_call_no_square_check(self, shape, rng, k) ==
    IF Len(shape) # 2
    THEN Result(Raise("ValueError"), rng, k, "self")
    ELSE Result(Ok([i \in 1..shape[1], j \in 1..shape[1] |->
                       RMul(self.gain, IF i = j THEN Num(1) ELSE Num(0))]),
                rng, k, "self")

\* gain * np.identity(n): the n x n matrix as a function of (row, column)
Identity_call(self, shape, rng, k) ==
    IF Len(shape) # 2 \/ shape[1] # shape[2]
    THEN Result(Raise("ValueError"), rng, k, "self")
    ELSE Result(Ok([i \in 1..shape[1], j \in 1..shape[1] |->
                       RMul(self.gain, IF i = j THEN Num(1) ELSE Num(0))]),
                rng, k, "self")

call(self, shape, rng, k) ==
    CASE self.cls = "Zeros" -> Zeros_call(self, shape, rng, k)
      [] self.cls = "Ones" -> Ones_call(self, shape, rng, k)
      [] self.cls = "Constant" -> Constant_call(self, shape, rng, k)
      [] self.cls = "RandomNormal" -> RandomNormal_call(self, shape, rng, k)
      [] self.cls = "RandomUniform" -> RandomUniform_call(self, shape, rng, k)
      [] self.cls = "TruncatedNormal" -> TruncatedNormal_call(self, shape, rng, k)
      [] self.cls = "VarianceScaling" -> VarianceScaling_call(self, shape, rng, k)
      [] self.cls = "Orthogonal" -> Orthogonal_call(self, shape, rng, k)
      [] self.cls = "ConvolutionAware" ->
            ConvolutionAware_call(self, shape, rng, k)
      [] self.cls = "Identity" -> Identity_call(self, shape, rng, k)

-----------------------------------------------------------------------------
(* State *)

NoRet == [op |-> "none"]

Init ==
    /\ objs = <<>>
    /\ np_random = [seed |-> None, pos |-> 0]
    /\ k_random = 0
    /\ calls = <<>>
    /\ ret = NoRet

-----------------------------------------------------------------------------
(* Operations *)

\* obj = cls(**kwargs)
Construct(cls, kwargs) ==
    LET r == New(cls, kwargs)
    IN  /\ objs' = IF r.ok THEN Append(objs, r.val) ELSE objs
        /\ ret' = [op |-> "init", cls |-> cls, kwargs |-> kwargs, out |-> r]
        /\ UNCHANGED <<np_random, k_random, calls>>

\* objs[i].get_config()
GetConfig(i) ==
    /\ ret' = [op |-> "get_config", obj |-> i, out |-> Ok(get_config(objs[i]))]
    /\ UNCHANGED <<objs, np_random, k_random, calls>>

\* type(objs[i]).from_config(objs[i].get_config())
FromConfig(i) ==
    LET r == from_config(objs[i].cls, get_config(objs[i]))
    IN  /\ objs' = IF r.ok THEN Append(objs, r.val) ELSE objs
        /\ ret' = [op |-> "from_config", obj |-> i, out |-> r]
        /\ UNCHANGED <<np_random, k_random, calls>>

\* objs[i](shape)
Call(i, shape) ==
    \E r \in {call(objs[i], shape, np_random, k_random)} :
    \E c \in {[op |-> "call", obj |-> i, shape |-> shape,
                np_before |-> np_random, k_before |-> k_random,
                np_after |-> r.np, out |-> r.out, via |-> r.via]} :
        /\ np_random' = r.np
        /\ k_random' = r.k
        /\ calls' = Append(calls, c)
        /\ ret' = c
        /\ UNCHANGED objs

\* _compute_fans(shape, data_format), the arguments being in ret
ComputeFans ==
    /\ ret.op = "args_compute_fans"
    /\ ret' = [op |-> "compute_fans", shape |-> ret.shape,
               data_format |-> ret.data_format,
               out |-> compute_fans(ret.shape, ret.data_format)]
    /\ UNCHANGED <<objs, np_random, k_random, calls>>

\* objs[1]._create_basis(filters, size), the arguments being in ret
CreateBasis ==
    /\ ret.op = "args_create_basis"
    /\ LET r == create_basis(objs[1], ret.filters, ret.size, np_random)
       IN  /\ ret' = [op |-> "create_basis", filters |-> ret.filters,
                      size |-> ret.size, np_before |-> np_random,
                      out |-> r.out, batches |-> r.batches,
                      collected |-> r.collected]
           /\ np_random' = r.np
    /\ UNCHANGED <<objs, k_random, calls>>

-----------------------------------------------------------------------------
(* The fan calculator on every shape *)

InitFans ==
    /\ objs = <<>>
    /\ np_random = [seed |-> None, pos |-> 0]
    /\ k_random = 0
    /\ calls = <<>>
    /\ \E shape \in ShapesOf(1, MaxRank, 1..MaxDim), df \in DataFormats :
          ret = [op |-> "args_compute_fans", shape |-> shape,
                 data_format |-> df]

SpecFans == InitFans /\ [][ComputeFans]_vars

-----------------------------------------------------------------------------
(* VarianceScaling and Identity: one construction, then one call *)

CallKwargs(cls) ==
    IF cls = "VarianceScaling"
    THEN [scale : ScaleArgs, mode : ModeArgs, distribution : DistributionArgs,
          seed : {None, Some(1)}]
    ELSE [gain : {Num(1), Num(2), Num(-3), Real(1, 2, 1)}]

NextCall ==
    \/ /\ ret = NoRet
       /\ \E cls \in {"VarianceScaling", "Identity"} :
            \E kwargs \in CallKwargs(cls) : Construct(cls, kwargs)
    \/ /\ objs # <<>>
       /\ calls = <<>>
       /\ \E shape \in ShapesOf(0, CallMaxRank, 0..CallMaxDim) : Call(1, shape)

SpecCall == Init /\ [][NextCall]_vars

-----------------------------------------------------------------------------
(* Every class: construction, get_config, from_config, calls *)

ConfigKwargs(cls) ==
    CASE cls = "Constant" -> {<<>>, [value |-> Num(2)]}
      [] cls \in {"RandomNormal", "TruncatedNormal"} ->
            {<<>>, [seed |-> Some(2)],
             [mean |-> Num(1), stddev |-> Num(2), seed |-> Some(1)]}
      [] cls = "RandomUniform" ->
            {<<>>, [minval |-> Num(0), maxval |-> Num(1), seed |-> Some(1)]}
      [] cls = "VarianceScaling" ->
            {<<>>, [mode |-> s_FAN_IN], [scale |-> Num(0)], [mode |-> s_fan],
             [distribution |-> s_gaussian],
             [mode |-> s_fan_Avg, distribution |-> s_NORMAL],
             [scale |-> Num(2), mode |-> s_Fan_Out,
              distribution |-> s_Uniform, seed |-> Some(1)]}
      [] cls = "Orthogonal" -> {<<>>, [gain |-> Num(2), seed |-> Some(1)]}
      [] cls = "ConvolutionAware" ->
            {<<>>, [eps_std |-> Real(1, 10, 1), seed |-> Some(1)]}
      [] cls = "Identity" -> {<<>>, [gain |-> Num(2)], [value |-> Num(2)]}
      [] OTHER -> {<<>>}

ConfigShapes == {<<2, 2>>, <<2, 1, 2>>}

NextConfig ==
    \/ /\ objs = <<>>
       /\ \E cls \in Classes : \E kwargs \in ConfigKwargs(cls) :
            Construct(cls, kwargs)
    \/ \E i \in 1..Len(objs) : GetConfig(i)
    \/ /\ Len(objs) < MaxObjs
       /\ \E i \in 1..Len(objs) : FromConfig(i)
    \/ /\ Len(calls) < MaxCalls
       /\ \E i \in 1..Len(objs) : \E shape \in ConfigShapes : Call(i, shape)

SpecConfig == Init /\ [][NextConfig]_vars

-----------------------------------------------------------------------------
(* The seeded classes and the shared numpy generator *)

RandomKwargs(cls) ==
    IF cls \in {"Orthogonal", "ConvolutionAware"}
    THEN {<<>>, [seed |-> Some(1)]}
    ELSE {[seed |-> Some(1)]}

RandomShapes == {<<3>>, <<2, 3>>, <<3, 2, 2>>, <<2, 2, 1, 2>>, <<1, 2, 1, 1, 2>>}

\* shapes with an empty axis, given to ConvolutionAware instances
EmptyShapes == {<<0, 3>>, <<0, 0>>, <<2, 1, 0>>, <<2, 0, 2>>, <<0, 2, 1, 1>>}

ShapesFor(obj) ==
    IF obj.cls = "ConvolutionAware"
    THEN RandomShapes \cup EmptyShapes
    ELSE RandomShapes

NextRandom ==
    \/ /\ Len(objs) < MaxObjs
       /\ \E cls \in {"RandomNormal", "VarianceScaling", "Orthogonal",
                      "ConvolutionAware"} :
            \E kwargs \in RandomKwargs(cls) : Construct(cls, kwargs)
    \/ /\ Len(calls) < MaxCalls
       /\ \E i \in 1..Len(objs) : \E shape \in ShapesFor(objs[i]) :
            Call(i, shape)

SpecRandom == Init /\ [][NextRandom]_vars

-----------------------------------------------------------------------------
(* _create_basis on every stack size and Fourier-domain dimension *)

InitBasis ==
    /\ \E eps_std \in {Real(1, 20, 1), Num(1)} :
          objs = <<ConvolutionAware_init(eps_std, None).val>>
    /\ \E seed \in SeedArgs :
          np_random = [seed |-> seed, pos |-> 0]
    /\ k_random = 0
    /\ calls = <<>>
    /\ \E filters \in 1..MaxFilters, size \in 1..MaxSize :
          ret = [op |-> "args_create_basis", filters |-> filters,
                 size |-> size]

SpecBasis == InitBasis /\ [][CreateBasis]_vars

-----------------------------------------------------------------------------
(* Properties *)

IsCall(cls) == ret.op = "call" /\ objs[ret.obj].cls = cls

\* C1: for a shape of length 3, 4 or 5, _compute_fans(shape, 'channels_last')
\* is (shape[-2] * R, shape[-1] * R) with R the product of shape[:-2]; for a
\* shape of length 2 it is (shape[0], shape[1]).
C1_FansChannelsLast ==
    (ret.op = "compute_fans" /\ ret.data_format = "channels_last") =>
        LET shape == ret.shape
            n == Len(shape)
            R == Prod(Slice(shape, 0, n - 2))
        IN  /\ n \in {3, 4, 5} =>
                  ret.out = Ok(<<Num(shape[n - 1] * R), Num(shape[n] * R)>>)
            /\ n = 2 => ret.out = Ok(<<Num(shape[1]), Num(shape[2])>>)

\* C2: VarianceScaling(scale, mode, distribution, seed) raises ValueError
\* exactly when scale <= 0 or the lower-cased mode or distribution is
\* unknown; otherwise it succeeds; no instance holds a non-positive scale or
\* an unknown mode or distribution.
C2_ConstructorValidates ==
    /\ (ret.op = "init" /\ ret.cls = "VarianceScaling") =>
          LET a == ret.kwargs
              bad == \/ a.scale.n <= 0
                     \/ lower(a.mode) \notin {s_fan_in, s_fan_out, s_fan_avg}
                     \/ lower(a.distribution) \notin {s_normal, s_uniform}
          IN  /\ bad <=> ret.out = Raise("ValueError")
              /\ ~bad <=> ret.out.ok
    /\ \A i \in 1..Len(objs) :
          objs[i].cls = "VarianceScaling" =>
              /\ objs[i].scale.n > 0
              /\ objs[i].mode \in {s_fan_in, s_fan_out, s_fan_avg}
              /\ objs[i].distribution \in {s_normal, s_uniform}

C2_Witness ==
    /\ ret.op = "init" /\ ret.cls = "VarianceScaling"
    /\ ret.kwargs.scale = Num(0)
    /\ ret.kwargs.mode = s_Fan_Out
    /\ ret.kwargs.distribution = s_NORMAL
    /\ ret.out = Raise("ValueError")

\* C3: a VarianceScaling call on a shape passes to the backend mean 0 and a
\* stddev with stddev^2 * max(1, n) = scale (truncated normal), or bounds
\* -limit, limit with limit^2 * max(1, n) = 3 * scale (uniform), n being
\* fan_in, fan_out or their mean by mode, together with the instance's seed.
C3_VarianceScalingCall ==
    IsCall("VarianceScaling") =>
        LET self == objs[ret.obj]
            fans == compute_fans(ret.shape, "channels_last").val
            n == CASE self.mode = s_fan_in -> fans[1]
                   [] self.mode = s_fan_out -> fans[2]
                   [] self.mode = s_fan_avg ->
                         RDiv(RAdd(fans[1], fans[2]), Num(2))
            m == IF RLt(n, Num(1)) THEN Num(1) ELSE n
            t == ret.out.val
        IN  /\ ret.out.ok
            /\ t.shape = ret.shape
            /\ t.seed = self.seed
            /\ IF self.distribution = s_normal
               THEN /\ t.kind = "truncated_normal"
                    /\ t.a = Num(0)
                    /\ t.b.n >= 0
                    /\ REq(RMul(RMul(t.b, t.b), m), self.scale)
               ELSE /\ t.kind = "random_uniform"
                    /\ t.b.n >= 0
                    /\ t.a = RNeg(t.b)
                    /\ REq(RMul(RMul(t.b, t.b), m), RMul(Num(3), self.scale))

C3_Witness ==
    /\ IsCall("VarianceScaling")
    /\ objs[ret.obj].mode = s_fan_out
    /\ objs[ret.obj].distribution = s_uniform
    /\ ret.shape = <<2, 1, 2>>
    /\ ret.out.ok

\* C4: two calls on the same seeded instance with the same shape return
\* identical tensors, whatever calls were made before or between them.
C4_SeededCallsRepeat ==
    \A i \in 1..Len(calls), j \in 1..Len(calls) :
        (/\ i < j
         /\ calls[i].obj = calls[j].obj
         /\ objs[calls[i].obj].seed # None
         /\ calls[i].shape = calls[j].shape) => calls[i].out = calls[j].out

\* the outcome of the last call of history h run from the initial generator
\* states
RECURSIVE Replay(_, _, _, _, _)
Replay(h, i, rng, k, last) ==
    IF i > Len(h)
    THEN last
    ELSE LET r == call(objs[h[i].obj], h[i].shape, rng, k)
         IN  Replay(h, i + 1, r.np, r.k, r.out)

SeededOrthogonal(i) == objs[i].cls = "Orthogonal" /\ objs[i].seed # None

\* the first j calls without those on seeded Orthogonal instances other than b
WithoutSeededOrthogonal(b, j) ==
    LET Kept(c) == c.obj = b \/ ~SeededOrthogonal(c.obj)
    IN  SelectSeq(SubSeq(calls, 1, j), Kept)

\* C5: no mutable state is shared across instances: the tensor a call on an
\* instance B returns is the same whether or not calls on another instance A
\* were made before it; in particular, with A a seeded Orthogonal: a call on
\* B returns what it returns when the calls on the seeded Orthogonal
\* instances other than B are left out of the run.
C5_NoSharedState ==
    \A j \in 1..Len(calls) :
        calls[j].out =
            Replay(WithoutSeededOrthogonal(calls[j].obj, j), 1,
                   [seed |-> None, pos |-> 0], 0, NoRet)

\* C6: rebuilding an instance from its get_config() succeeds and gives the
\* same get_config(), for every class and every instance constructed; and a
\* call leaves every instance's get_config() unchanged.
C6_RoundTrip ==
    \A i \in 1..Len(objs) :
        LET config == get_config(objs[i])
            r == from_config(objs[i].cls, config)
        IN  r.ok /\ get_config(r.val) = config

C6_CallKeepsConfig ==
    calls' # calls =>
        /\ Len(objs') = Len(objs)
        /\ \A i \in 1..Len(objs) : get_config(objs'[i]) = get_config(objs[i])

C6_ConfigRoundTrip == [](C6_RoundTrip) /\ [][C6_CallKeepsConfig]_vars

C6_Witness ==
    /\ ret.op = "from_config" /\ ret.out.ok
    /\ objs[ret.obj].cls = "VarianceScaling"
    /\ objs[ret.obj].scale = Num(2)
    /\ objs[ret.obj].mode = s_fan_out
    /\ objs[Len(objs)] = objs[ret.obj]
    /\ calls # <<>>

\* C7: on a shape of length other than 3 and 4 a ConvolutionAware call
\* reaches the delegation and gives what Orthogonal(gain=1, seed=None) gives
\* from the same generator state, leaving the generator in the same state;
\* on a shape of length 3 or 4 it takes the Fourier path.
C7_ConvolutionAwareDelegates ==
    \A j \in 1..Len(calls) :
        LET c == calls[j] IN
        objs[c.obj].cls = "ConvolutionAware" =>
            IF Len(c.shape) \notin {3, 4}
            THEN LET o == Orthogonal_call(Orthogonal_init(Num(1), None).val,
                                          c.shape, c.np_before, c.k_before)
                 IN  /\ c.via = "orthogonal"
                     /\ c.out = o.out
                     /\ c.np_after = o.np
            ELSE c.via = "fourier"

\* C8: an Identity(gain) call raises ValueError exactly when the shape is not
\* (n, n); on (n, n) it returns the n x n matrix with gain on the diagonal
\* and 0 elsewhere.
C8_IdentityCall ==
    IsCall("Identity") =>
        LET shape == ret.shape
            square == Len(shape) = 2 /\ shape[1] = shape[2]
        IN  /\ ~square <=> ret.out = Raise("ValueError")
            /\ square <=> ret.out.ok
            /\ square =>
                  /\ DOMAIN ret.out.val = (1..shape[1]) \X (1..shape[1])
                  /\ \A i \in 1..shape[1], j \in 1..shape[1] :
                        ret.out.val[i, j] =
                            IF i = j THEN objs[ret.obj].gain ELSE Num(0)

C8_Witness ==
    /\ IsCall("Identity")
    /\ objs[ret.obj].gain = Num(2)
    /\ ret.shape = <<2, 2>>
    /\ ret.out.ok
    /\ ret.out.val[1, 1] = Num(2) /\ ret.out.val[1, 2] = Num(0)

\* C9: an Orthogonal call on a shape of length >= 1 picks the SVD factor
\* whose shape is (num_rows, num_cols) and returns, without error, a tensor
\* of the requested shape.
C9_OrthogonalReturnsShape ==
    \A j \in 1..Len(calls) :
        LET c == calls[j]
            flat_shape == <<Prod(Slice(c.shape, 0, Len(c.shape) - 1)),
                            c.shape[Len(c.shape)]>>
        IN  (objs[c.obj].cls = "Orthogonal" /\ Len(c.shape) >= 1) =>
                /\ c.out.ok
                /\ c.out.val.shape = c.shape
                /\ svd_shapes(flat_shape)[c.out.val.factor] = flat_shape

\* C10: _create_basis(filters, size) returns exactly `filters` rows of length
\* `size`; for size > 1 it draws filters // size + 1 batches of `size` rows,
\* more rows than `filters`; for size = 1 it draws no batch and returns
\* (filters, 1) noise.
C10_CreateBasis ==
    ret.op = "create_basis" =>
        /\ Len(ret.out) = ret.filters
        /\ \A r \in 1..Len(ret.out) : ret.out[r].len = ret.size
        /\ ret.size > 1 =>
              /\ ret.batches = ret.filters \div ret.size + 1
              /\ ret.collected = ret.batches * ret.size
              /\ ret.collected > ret.filters
              /\ np_random.pos =
                     ret.np_before.pos + ret.batches * ret.size * ret.size
              /\ \A r \in 1..Len(ret.out) : "svd_u_of" \in DOMAIN ret.out[r]
        /\ ret.size = 1 =>
              /\ ret.batches = 0
              /\ np_random.pos = ret.np_before.pos + ret.filters
              /\ \A r \in 1..Len(ret.out) :
                    /\ "noise_of" \in DOMAIN ret.out[r]
                    /\ ret.out[r].noise_of.size = <<ret.filters, 1>>

C10_Witness ==
    /\ ret.op = "create_basis"
    /\ ret.filters = 4 /\ ret.size = 2
    /\ ret.batches = 3 /\ ret.collected = 6
    /\ Len(ret.out) = 4

====
